---- MODULE Spec2Model ----
(***************************************************************************)
(* Model of query_builder (src/query_builder/builder.go): the fluent Query *)
(* builder and its Build pipeline.                                         *)
(*                                                                         *)
(* Strings are TLA+ strings.  A reference string handed to Col ("u.id")    *)
(* is written as the sequence of its dot-separated segments (<<"u","id">>),*)
(* which is what strings.Split(ref, ".") computes from it.  The text       *)
(* written to the strings.Builder is kept as the sequence of the pieces    *)
(* written (keywords, identifiers, operators, placeholders); Text joins    *)
(* them into the string Build returns.  A nil pointer, a nil map used as   *)
(* schema and a nil error are the empty sequence <<>>, a non-nil one is a  *)
(* one-element sequence.                                                   *)
(***************************************************************************)
EXTENDS Integers, Sequences, FiniteSets, TLC

VARIABLES q, ret, hist

vars == <<q, ret, hist>>

maxFilterDepth == 10

Nil == <<>>

(***************************************************************************)
(* Strings and small helpers                                               *)
(***************************************************************************)

\* strings.ToUpper on the strings the model uses
ToUpper(s) ==
    CASE s = "and" -> "AND"
      [] s = "or" -> "OR"
      [] s = "asc" -> "ASC"
      [] s = "desc" -> "DESC"
      [] s = "inner" -> "INNER"
      [] s = "left" -> "LEFT"
      [] s = "like" -> "LIKE"
      [] s = "in" -> "IN"
      [] s = "is not" -> "IS NOT"
      [] OTHER -> s

RECURSIVE ConcatAll(_)
\* the string made of the pieces in order
ConcatAll(pieces) ==
    IF pieces = <<>> THEN "" ELSE Head(pieces) \o ConcatAll(Tail(pieces))

Text(sb) == ConcatAll(sb)

RECURSIVE JoinParts(_, _)
\* strings.Join(parts, sep) on pieces: parts is a sequence of piece sequences
JoinParts(parts, sep) ==
    IF parts = <<>> THEN <<>>
    ELSE IF Len(parts) = 1 THEN parts[1]
    ELSE parts[1] \o <<sep>> \o JoinParts(Tail(parts), sep)

RECURSIVE JoinDots(_)
\* the reference string a sequence of segments stands for
JoinDots(segs) ==
    IF Len(segs) = 1 THEN segs[1] ELSE segs[1] \o "." \o JoinDots(Tail(segs))

(***************************************************************************)
(* Dialects                                                                *)
(***************************************************************************)

Dialects == {"Postgres", "MySQL", "Oracle"}

Placeholder(dialect, index) ==
    CASE dialect = "Postgres" -> "$" \o ToString(index)
      [] dialect = "MySQL" -> "?"
      [] dialect = "Oracle" -> ":" \o ToString(index)

(***************************************************************************)
(* Reference and filter model                                              *)
(***************************************************************************)

Col(ref) ==
    IF Len(ref) = 2
    THEN [TableAlias |-> ref[1], ColumnName |-> ref[2]]
    ELSE [TableAlias |-> "", ColumnName |-> JoinDots(ref)]

F(ref, op, val) == [Column |-> Col(ref), Op |-> op, Value |-> val]

\* items of And/Or: a Filter value, a non-nil *FilterGroup, or a nil *FilterGroup
FilterItem(f) == [kind |-> "Filter", Column |-> f.Column, Op |-> f.Op, Value |-> f.Value]
GroupItem(g) == [kind |-> "Group", group |-> <<g>>]
NilItem == [kind |-> "Group", group |-> Nil]

ItemFilter(it) == [Column |-> it.Column, Op |-> it.Op, Value |-> it.Value]

IsFilterItem(it) == it.kind = "Filter"
IsGroupItem(it) == it.kind = "Group" /\ it.group # Nil

createGroup(op, items) ==
    LET fs == SelectSeq(items, IsFilterItem)
        gs == SelectSeq(items, IsGroupItem)
    IN [Operator |-> op,
        Filters |-> [i \in 1..Len(fs) |-> ItemFilter(fs[i])],
        Groups |-> [i \in 1..Len(gs) |-> gs[i].group[1]]]

And(items) == createGroup("AND", items)

Or(items) == createGroup("OR", items)

allowedOperators == {"=", "!=", ">", "<", ">=", "<=", "IN", "LIKE", "IS", "IS NOT"}

allowedJoinTypes == {"INNER", "LEFT", "RIGHT", "FULL", "CROSS"}

allowedSortDir == {"ASC", "DESC"}

(***************************************************************************)
(* Query state and the fluent calls                                        *)
(***************************************************************************)

New(dialect) ==
    [dialect |-> dialect,
     allowedSchema |-> Nil,
     baseTable |-> "",
     baseAlias |-> "",
     projections |-> <<>>,
     joins |-> <<>>,
     where |-> Nil,
     sorts |-> <<>>,
     limit |-> 0,
     offset |-> 0,
     pagination |-> [Type |-> "", LastSeen |-> <<>>],
     isCount |-> FALSE,
     errors |-> <<>>]

\* hist records what the callers did: whether Count was ever called, which of
\* Offset and KeysetPagination was called last, and whether the last two calls
\* were both Build.  Called is hist after a fluent call.
Called(h) == [h EXCEPT !.repeated = FALSE]

\* what a fluent call returns: the same Query, no Build result
Chained == [op |-> "fluent", sql |-> <<>>, args |-> <<>>, err |-> Nil]

\* schema is a Go map value: Nil (a nil map) or <<m>>
WithSchema(schema) ==
    /\ q' = [q EXCEPT !.allowedSchema = schema]
    /\ ret' = Chained
    /\ hist' = Called(hist)

From(table, alias) ==
    /\ q' = [q EXCEPT !.baseTable = table, !.baseAlias = alias]
    /\ ret' = Chained
    /\ hist' = Called(hist)

Select(columns) ==
    /\ q' = [q EXCEPT !.projections =
                @ \o [i \in 1..Len(columns) |-> Col(columns[i])]]
    /\ ret' = Chained
    /\ hist' = Called(hist)

Count ==
    /\ q' = [q EXCEPT !.isCount = TRUE]
    /\ ret' = Chained
    /\ hist' = [Called(hist) EXCEPT !.countCalled = TRUE]

Join(joinType, table, alias, left, right, op) ==
    /\ q' = [q EXCEPT !.joins = Append(@,
                [Type |-> joinType, Table |-> table, Alias |-> alias,
                 Condition |-> [Left |-> Col(left), Op |-> op, Right |-> Col(right)]])]
    /\ ret' = Chained
    /\ hist' = Called(hist)

\* group is a *FilterGroup: Nil or <<g>>
Where(group) ==
    /\ q' = [q EXCEPT !.where = group]
    /\ ret' = Chained
    /\ hist' = Called(hist)

AppendRootFilter(filter) ==
    IF q.where = Nil
    THEN [q EXCEPT !.where = <<And(<<FilterItem(filter)>>)>>]
    ELSE [q EXCEPT !.where = <<[q.where[1] EXCEPT !.Filters = Append(@, filter)]>>]

Eq(ref, val) ==
    /\ q' = AppendRootFilter(F(ref, "=", val))
    /\ ret' = Chained
    /\ hist' = Called(hist)

In(ref, val) ==
    /\ q' = AppendRootFilter(F(ref, "IN", val))
    /\ ret' = Chained
    /\ hist' = Called(hist)

OrderBy(column, dir) ==
    /\ q' = [q EXCEPT !.sorts = Append(@, [Column |-> Col(column), Dir |-> ToUpper(dir)])]
    /\ ret' = Chained
    /\ hist' = Called(hist)

Limit(limit) ==
    /\ q' = [q EXCEPT !.limit = limit]
    /\ ret' = Chained
    /\ hist' = Called(hist)

\* an Offset that stores the offset and leaves the pagination mode alone
OffsetKeepingMode(offset) ==
    /\ q' = [q EXCEPT !.offset = offset]
    /\ ret' = Chained
    /\ hist' = [Called(hist) EXCEPT !.lastPaging = "Offset"]

Offset(offset) ==
    /\ q' = [q EXCEPT !.offset = offset, !.pagination.Type = "offset"]
    /\ ret' = Chained
    /\ hist' = [Called(hist) EXCEPT !.lastPaging = "Offset"]

KeysetPagination(lastSeen) ==
    /\ q' = [q EXCEPT !.pagination = [Type |-> "keyset", LastSeen |-> lastSeen]]
    /\ ret' = Chained
    /\ hist' = [Called(hist) EXCEPT !.lastPaging = "KeysetPagination"]

(***************************************************************************)
(* Validation                                                              *)
(***************************************************************************)

\* _, ok := schema[table]
SchemaHasTable(schema, table) == table \in DOMAIN schema[1]

\* schema[table][column]: false for a missing table or column
SchemaLookup(schema, table, column) ==
    /\ table \in DOMAIN schema[1]
    /\ column \in DOMAIN schema[1][table]
    /\ schema[1][table][column]

validateBase(qq, schema) ==
    IF qq.baseTable = "" THEN <<"base table required">>
    ELSE IF schema # Nil /\ ~SchemaHasTable(schema, qq.baseTable)
    THEN <<"invalid base table: " \o qq.baseTable>>
    ELSE Nil

getBaseAlias(qq) ==
    IF qq.baseAlias # "" THEN qq.baseAlias ELSE qq.baseTable

RECURSIVE registerJoinAliases(_, _, _)
\* the loop of registerAliases from join i on
registerJoinAliases(joins, i, aliasMap) ==
    IF i > Len(joins) THEN [aliasMap |-> aliasMap, err |-> Nil]
    ELSE IF joins[i].Alias = ""
    THEN [aliasMap |-> <<>>, err |-> <<"join alias required">>]
    ELSE IF joins[i].Alias \in DOMAIN aliasMap
    THEN [aliasMap |-> <<>>, err |-> <<"duplicate alias: " \o joins[i].Alias>>]
    ELSE registerJoinAliases(joins, i + 1,
                             (joins[i].Alias :> joins[i].Table) @@ aliasMap)

\* registerAliases that does not enter the base alias into the map
registerAliasesJoinsOnly(qq) ==
    registerJoinAliases(qq.joins, 1, <<>>)

registerAliases(qq) ==
    registerJoinAliases(qq.joins, 1, (getBaseAlias(qq) :> qq.baseTable))

validateCol(ref, aliasMap, schema) ==
    IF schema = Nil THEN Nil
    ELSE IF \/ ref.TableAlias \notin DOMAIN aliasMap
            \/ ~SchemaLookup(schema, aliasMap[ref.TableAlias], ref.ColumnName)
    THEN <<ref.TableAlias \o "." \o ref.ColumnName>>
    ELSE Nil

validateJoin(j, aliasMap, schema) ==
    IF ToUpper(j.Type) \notin allowedJoinTypes
    THEN <<"invalid join type: " \o j.Type>>
    ELSE IF schema = Nil THEN Nil
    ELSE IF ~SchemaHasTable(schema, j.Table)
    THEN <<"invalid join table: " \o j.Table>>
    ELSE IF validateCol(j.Condition.Left, aliasMap, schema) # Nil
    THEN <<"invalid join left column: "
            \o validateCol(j.Condition.Left, aliasMap, schema)[1]>>
    ELSE IF validateCol(j.Condition.Right, aliasMap, schema) # Nil
    THEN <<"invalid join right column: "
            \o validateCol(j.Condition.Right, aliasMap, schema)[1]>>
    ELSE Nil

(***************************************************************************)
(* Rendering                                                               *)
(***************************************************************************)

RECURSIVE projectionCols(_, _, _, _, _)
\* the loop of buildProjections from projection i on; cols are the parts so far
projectionCols(projections, i, cols, aliasMap, schema) ==
    IF i > Len(projections) THEN [cols |-> cols, err |-> Nil]
    ELSE IF validateCol(projections[i], aliasMap, schema) # Nil
    THEN [cols |-> cols,
          err |-> <<"invalid column: "
                    \o validateCol(projections[i], aliasMap, schema)[1]>>]
    ELSE projectionCols(projections, i + 1,
             Append(cols, <<projections[i].TableAlias, ".", projections[i].ColumnName>>),
             aliasMap, schema)

buildProjections(qq, sb, aliasMap, schema, baseAlias) ==
    IF Len(qq.projections) = 0
    THEN [sb |-> sb \o <<"SELECT ", baseAlias, ".*">>, err |-> Nil]
    ELSE LET r == projectionCols(qq.projections, 1, <<>>, aliasMap, schema)
         IN [sb |-> sb \o <<"SELECT ">> \o JoinParts(r.cols, ", "), err |-> r.err]

RECURSIVE buildJoinsFrom(_, _, _, _, _)
\* the loop of buildJoins from join i on
buildJoinsFrom(joins, i, sb, aliasMap, schema) ==
    IF i > Len(joins) THEN [sb |-> sb, err |-> Nil]
    ELSE IF validateJoin(joins[i], aliasMap, schema) # Nil
    THEN [sb |-> sb, err |-> validateJoin(joins[i], aliasMap, schema)]
    ELSE buildJoinsFrom(joins, i + 1,
             sb \o <<" ", ToUpper(joins[i].Type), " JOIN ", joins[i].Table, " ",
                     joins[i].Alias, " ON ",
                     joins[i].Condition.Left.TableAlias, ".",
                     joins[i].Condition.Left.ColumnName, " ",
                     joins[i].Condition.Op, " ",
                     joins[i].Condition.Right.TableAlias, ".",
                     joins[i].Condition.Right.ColumnName>>,
             aliasMap, schema)

buildJoins(qq, sb, aliasMap, schema) ==
    buildJoinsFrom(qq.joins, 1, sb, aliasMap, schema)

RECURSIVE collectFiltersLocalIndex(_, _, _, _, _, _, _)
\* collectFiltersFrom numbering each placeholder by the filter's place in its group
collectFiltersLocalIndex(dialect, filters, i, parts, args, aliasMap, schema) ==
    IF i > Len(filters) THEN [parts |-> parts, args |-> args, err |-> Nil]
    ELSE IF validateCol(filters[i].Column, aliasMap, schema) # Nil
    THEN [parts |-> <<>>, args |-> args,
          err |-> <<"invalid column: "
                    \o validateCol(filters[i].Column, aliasMap, schema)[1]>>]
    ELSE IF ToUpper(filters[i].Op) \notin allowedOperators
    THEN [parts |-> <<>>, args |-> args,
          err |-> <<"invalid operator: " \o filters[i].Op>>]
    ELSE collectFiltersLocalIndex(dialect, filters, i + 1,
             Append(parts, <<filters[i].Column.TableAlias, ".",
                             filters[i].Column.ColumnName, " ",
                             filters[i].Op, " ",
                             Placeholder(dialect, i)>>),
             Append(args, filters[i].Value), aliasMap, schema)

RECURSIVE collectFiltersFrom(_, _, _, _, _, _, _)
\* the loop of collectFilters from filter i on
collectFiltersFrom(dialect, filters, i, parts, args, aliasMap, schema) ==
    IF i > Len(filters) THEN [parts |-> parts, args |-> args, err |-> Nil]
    ELSE IF validateCol(filters[i].Column, aliasMap, schema) # Nil
    THEN [parts |-> <<>>, args |-> args,
          err |-> <<"invalid column: "
                    \o validateCol(filters[i].Column, aliasMap, schema)[1]>>]
    ELSE IF ToUpper(filters[i].Op) \notin allowedOperators
    THEN [parts |-> <<>>, args |-> args,
          err |-> <<"invalid operator: " \o filters[i].Op>>]
    ELSE LET args2 == Append(args, filters[i].Value)
         IN collectFiltersFrom(dialect, filters, i + 1,
                Append(parts, <<filters[i].Column.TableAlias, ".",
                                filters[i].Column.ColumnName, " ",
                                filters[i].Op, " ",
                                Placeholder(dialect, Len(args2))>>),
                args2, aliasMap, schema)

collectFilters(qq, filters, args, aliasMap, schema) ==
    collectFiltersFrom(qq.dialect, filters, 1, <<>>, args, aliasMap, schema)

RECURSIVE buildFilterGroup(_, _, _, _, _, _)
RECURSIVE subGroupsFrom(_, _, _, _, _, _, _, _)

\* the loop of buildFilterGroup over g.Groups from subgroup i on
subGroupsFrom(qq, groups, i, parts, args, aliasMap, depth, schema) ==
    IF i > Len(groups) THEN [parts |-> parts, args |-> args, err |-> Nil]
    ELSE LET sub == buildFilterGroup(qq, groups[i], args, aliasMap, depth + 1, schema)
         IN IF sub.err # Nil
            THEN [parts |-> <<>>, args |-> sub.args, err |-> sub.err]
            ELSE subGroupsFrom(qq, groups, i + 1,
                     IF sub.s # <<>>
                     THEN Append(parts, <<"(">> \o sub.s \o <<")">>)
                     ELSE parts,
                     sub.args, aliasMap, depth, schema)

\* a depth test that already rejects the depth maxFilterDepth
depthExceededAtLimit(depth) == depth >= maxFilterDepth

depthExceeded(depth) == depth > maxFilterDepth

buildFilterGroup(qq, g, args, aliasMap, depth, schema) ==
    IF depthExceeded(depth)
    THEN [s |-> <<>>, args |-> args, err |-> <<"filter depth exceeded">>]
    ELSE LET op == ToUpper(g.Operator)
         IN IF op # "AND" /\ op # "OR"
            THEN [s |-> <<>>, args |-> args, err |-> <<"invalid logical operator">>]
            ELSE LET own == collectFilters(qq, g.Filters, args, aliasMap, schema)
                 IN IF own.err # Nil
                    THEN [s |-> <<>>, args |-> own.args, err |-> own.err]
                    ELSE LET all == subGroupsFrom(qq, g.Groups, 1, own.parts, own.args,
                                                  aliasMap, depth, schema)
                         IN IF all.err # Nil
                            THEN [s |-> <<>>, args |-> all.args, err |-> all.err]
                            ELSE [s |-> JoinParts(all.parts, " " \o op \o " "),
                                  args |-> all.args, err |-> Nil]

\* buildKeysetPagination reading the last configured sort instead of the first
buildKeysetPaginationLastSort(qq, args, hasWhere) ==
    IF qq.pagination.Type # "keyset" \/ Len(qq.sorts) = 0
    THEN [s |-> <<>>, args |-> args, err |-> Nil]
    ELSE LET last == qq.sorts[Len(qq.sorts)]
             col == last.Column
             key == col.TableAlias \o "." \o col.ColumnName
         IN IF key \notin DOMAIN qq.pagination.LastSeen
            THEN [s |-> <<>>, args |-> args, err |-> Nil]
            ELSE LET op == IF ToUpper(last.Dir) = "DESC" THEN "<" ELSE ">"
                     args2 == Append(args, qq.pagination.LastSeen[key])
                 IN [s |-> <<col.TableAlias, ".", col.ColumnName, " ", op, " ",
                              Placeholder(qq.dialect, Len(args2))>>,
                     args |-> args2, err |-> Nil]

buildKeysetPagination(qq, args, hasWhere) ==
    IF qq.pagination.Type # "keyset" \/ Len(qq.sorts) = 0
    THEN [s |-> <<>>, args |-> args, err |-> Nil]
    ELSE LET col == qq.sorts[1].Column
             key == col.TableAlias \o "." \o col.ColumnName
         IN IF key \notin DOMAIN qq.pagination.LastSeen
            THEN [s |-> <<>>, args |-> args, err |-> Nil]
            ELSE LET op == IF ToUpper(qq.sorts[1].Dir) = "DESC" THEN "<" ELSE ">"
                     args2 == Append(args, qq.pagination.LastSeen[key])
                 IN [s |-> <<col.TableAlias, ".", col.ColumnName, " ", op, " ",
                              Placeholder(qq.dialect, Len(args2))>>,
                     args |-> args2, err |-> Nil]

\* the keyset part of buildFilters, after the filter tree
appendKeyset(qq, sb, args, hasWhere) ==
    IF qq.pagination.Type = "keyset" /\ Len(qq.sorts) > 0
    THEN LET k == buildKeysetPagination(qq, args, hasWhere)
         IN IF k.err # Nil THEN [sb |-> sb, args |-> k.args, err |-> k.err]
            ELSE IF k.s # <<>>
            THEN [sb |-> sb \o <<IF ~hasWhere THEN " WHERE " ELSE " AND ">> \o k.s,
                  args |-> k.args, err |-> Nil]
            ELSE [sb |-> sb, args |-> k.args, err |-> Nil]
    ELSE [sb |-> sb, args |-> args, err |-> Nil]

buildFilters(qq, sb, args, aliasMap, schema) ==
    IF qq.where # Nil
    THEN LET w == buildFilterGroup(qq, qq.where[1], args, aliasMap, 0, schema)
         IN IF w.err # Nil THEN [sb |-> sb, args |-> w.args, err |-> w.err]
            ELSE IF w.s # <<>>
            THEN appendKeyset(qq, sb \o <<" WHERE ">> \o w.s, w.args, TRUE)
            ELSE appendKeyset(qq, sb, w.args, FALSE)
    ELSE appendKeyset(qq, sb, args, FALSE)

RECURSIVE sortPartsFrom(_, _, _, _, _)
\* the loop of buildOrderBy from sort i on
sortPartsFrom(sorts, i, sortParts, aliasMap, schema) ==
    IF i > Len(sorts) THEN [parts |-> sortParts, err |-> Nil]
    ELSE IF validateCol(sorts[i].Column, aliasMap, schema) # Nil
    THEN [parts |-> sortParts,
          err |-> <<"invalid sort column: "
                    \o validateCol(sorts[i].Column, aliasMap, schema)[1]>>]
    ELSE IF ToUpper(sorts[i].Dir) \notin allowedSortDir
    THEN [parts |-> sortParts, err |-> <<"invalid sort direction: " \o sorts[i].Dir>>]
    ELSE sortPartsFrom(sorts, i + 1,
             Append(sortParts, <<sorts[i].Column.TableAlias, ".",
                                 sorts[i].Column.ColumnName, " ",
                                 ToUpper(sorts[i].Dir)>>),
             aliasMap, schema)

buildOrderBy(qq, sb, aliasMap, schema) ==
    IF Len(qq.sorts) = 0 THEN [sb |-> sb, err |-> Nil]
    ELSE LET r == sortPartsFrom(qq.sorts, 1, <<>>, aliasMap, schema)
         IN [sb |-> sb \o <<" ORDER BY ">> \o JoinParts(r.parts, ", "), err |-> r.err]

\* buildLimitOffset writing OFFSET for every offset that is not negative
buildLimitOffsetFromZero(qq, sb, args) ==
    IF qq.limit <= 0 THEN [sb |-> sb, args |-> args]
    ELSE IF qq.pagination.Type = "keyset" \/ Placeholder(qq.dialect, 1) = ":1"
    THEN LET args2 == Append(args, qq.limit)
         IN [sb |-> sb \o <<" FETCH NEXT ", Placeholder(qq.dialect, Len(args2)),
                             " ROWS ONLY">>,
             args |-> args2]
    ELSE LET args2 == Append(args, qq.limit)
             sb2 == sb \o <<" LIMIT ", Placeholder(qq.dialect, Len(args2))>>
         IN IF qq.offset >= 0
            THEN LET args3 == Append(args2, qq.offset)
                 IN [sb |-> sb2 \o <<" OFFSET ", Placeholder(qq.dialect, Len(args3))>>,
                     args |-> args3]
            ELSE [sb |-> sb2, args |-> args2]

buildLimitOffset(qq, sb, args) ==
    IF qq.limit <= 0 THEN [sb |-> sb, args |-> args]
    ELSE IF qq.pagination.Type = "keyset" \/ Placeholder(qq.dialect, 1) = ":1"
    THEN LET args2 == Append(args, qq.limit)
         IN [sb |-> sb \o <<" FETCH NEXT ", Placeholder(qq.dialect, Len(args2)),
                             " ROWS ONLY">>,
             args |-> args2]
    ELSE LET args2 == Append(args, qq.limit)
             sb2 == sb \o <<" LIMIT ", Placeholder(qq.dialect, Len(args2))>>
         IN IF qq.offset > 0
            THEN LET args3 == Append(args2, qq.offset)
                 IN [sb |-> sb2 \o <<" OFFSET ", Placeholder(qq.dialect, Len(args3))>>,
                     args |-> args3]
            ELSE [sb |-> sb2, args |-> args2]

Failed(err) == [sql |-> <<>>, args |-> <<>>, err |-> err]

\* finishBuild without the return of count mode
finishBuildNoCountReturn(qq, sb, args, aliasMap) ==
    LET ob == buildOrderBy(qq, sb, aliasMap, qq.allowedSchema) IN
    IF ob.err # Nil THEN Failed(ob.err)
    ELSE LET lo == buildLimitOffset(qq, ob.sb, args)
         IN [sql |-> lo.sb, args |-> lo.args, err |-> Nil]

\* Build after the WHERE phase: the count return, ORDER BY, LIMIT/OFFSET
finishBuild(qq, sb, args, aliasMap) ==
    IF qq.isCount THEN [sql |-> sb, args |-> args, err |-> Nil]
    ELSE LET ob == buildOrderBy(qq, sb, aliasMap, qq.allowedSchema) IN
    IF ob.err # Nil THEN Failed(ob.err)
    ELSE LET lo == buildLimitOffset(qq, ob.sb, args)
         IN [sql |-> lo.sb, args |-> lo.args, err |-> Nil]

\* a Build whose JOIN phase is validated before the SELECT phase
BuildOutcomeJoinsFirst(qq) ==
    IF Len(qq.errors) > 0 THEN Failed(<<qq.errors[1]>>)
    ELSE IF validateBase(qq, qq.allowedSchema) # Nil
    THEN Failed(validateBase(qq, qq.allowedSchema))
    ELSE LET reg == registerAliases(qq) IN
    IF reg.err # Nil THEN Failed(reg.err)
    ELSE LET aliasMap == reg.aliasMap
             early == buildJoins(qq, <<>>, aliasMap, qq.allowedSchema)
             sel == IF qq.isCount
                    THEN [sb |-> <<"SELECT COUNT(*)">>, err |-> Nil]
                    ELSE buildProjections(qq, <<>>, aliasMap, qq.allowedSchema,
                                          getBaseAlias(qq))
         IN
    IF early.err # Nil THEN Failed(early.err)
    ELSE IF sel.err # Nil THEN Failed(sel.err)
    ELSE LET from == sel.sb \o <<" FROM ", qq.baseTable, " ", getBaseAlias(qq)>>
             jn == buildJoins(qq, from, aliasMap, qq.allowedSchema)
             wh == buildFilters(qq, jn.sb, <<>>, aliasMap, qq.allowedSchema)
         IN
    IF wh.err # Nil THEN Failed(wh.err)
    ELSE finishBuild(qq, wh.sb, wh.args, aliasMap)

\* what Build returns for the Query qq: (sql, args, err)
BuildOutcome(qq) ==
    IF Len(qq.errors) > 0 THEN Failed(<<qq.errors[1]>>)
    ELSE IF validateBase(qq, qq.allowedSchema) # Nil
    THEN Failed(validateBase(qq, qq.allowedSchema))
    ELSE LET reg == registerAliases(qq) IN
    IF reg.err # Nil THEN Failed(reg.err)
    ELSE LET aliasMap == reg.aliasMap
             sel == IF qq.isCount
                    THEN [sb |-> <<"SELECT COUNT(*)">>, err |-> Nil]
                    ELSE buildProjections(qq, <<>>, aliasMap, qq.allowedSchema,
                                          getBaseAlias(qq))
         IN
    IF sel.err # Nil THEN Failed(sel.err)
    ELSE LET from == sel.sb \o <<" FROM ", qq.baseTable, " ", getBaseAlias(qq)>>
             jn == buildJoins(qq, from, aliasMap, qq.allowedSchema)
         IN
    IF jn.err # Nil THEN Failed(jn.err)
    ELSE LET wh == buildFilters(qq, jn.sb, <<>>, aliasMap, qq.allowedSchema) IN
    IF wh.err # Nil THEN Failed(wh.err)
    ELSE finishBuild(qq, wh.sb, wh.args, aliasMap)

\* the value of ret after a Build that returned out
Returned(out) == [op |-> "Build", sql |-> out.sql, args |-> out.args, err |-> out.err]

\* a Build that also appends the error it returns to q.errors
BuildRecordingError ==
    /\ ret' = Returned(BuildOutcome(q))
    /\ q' = [q EXCEPT !.errors = @ \o BuildOutcome(q).err]
    /\ hist' = [hist EXCEPT !.repeated = (ret.op = "Build")]

Build ==
    /\ ret' = Returned(BuildOutcome(q))
    /\ q' = q
    /\ hist' = [hist EXCEPT !.repeated = (ret.op = "Build")]

(***************************************************************************)
(* The callers: which calls are made, with which inputs                    *)
(***************************************************************************)

\* cap on the lists (projections, joins, sorts, root filters) a specification
\* is not about, and on those it is about
MaxList == 1
MaxFocus == 2
\* longest chain of nested groups handed to Where
MaxNesting == 12

RefId == <<"id">>
RefUId == <<"u", "id">>
RefUName == <<"u", "name">>
RefOId == <<"o", "id">>
RefOPrice == <<"o", "price">>

SchemaFull ==
    ("users" :> [c \in {"id", "name"} |-> TRUE])
    @@ ("orders" :> [c \in {"id", "price"} |-> TRUE])

GroupFlat ==
    And(<<FilterItem(F(RefUId, ">", 18)), FilterItem(F(RefUName, "like", 7))>>)

GroupNested ==
    Or(<<FilterItem(F(RefUId, "=", 1)),
         GroupItem(And(<<FilterItem(F(RefOPrice, "<=", 100)),
                         GroupItem(Or(<<>>)),
                         NilItem>>)),
         FilterItem(F(RefUName, "IS NOT", 0))>>)

GroupEmpty == And(<<>>)

LastSeenId == ("u.id" :> 42)
LastSeenName == ("u.name" :> 7)

InitWith(dialects) ==
    /\ \E d \in dialects : q = New(d)
    /\ ret = Chained
    /\ hist = [countCalled |-> FALSE, lastPaging |-> "none", repeated |-> FALSE]

RootFilters == IF q.where = Nil THEN 0 ELSE Len(q.where[1].Filters)

\* the calls of the API, with inputs drawn from the sets of in
CallWithSchema(in) == \E s \in in.schemas : WithSchema(s)
CallFrom(in) == \E f \in in.froms : From(f[1], f[2])
CallSelect(in) ==
    \E c \in in.selects : Len(q.projections) + Len(c) <= in.maxProjections /\ Select(c)
CallJoin(in) ==
    \E j \in in.joins :
        Len(q.joins) < in.maxJoins /\ Join(j[1], j[2], j[3], j[4], j[5], j[6])
CallWhere(in) == \E g \in in.wheres : Where(g)
CallEq(in) == \E e \in in.eqs : RootFilters < in.maxRootFilters /\ Eq(e[1], e[2])
CallIn(in) == \E e \in in.ins : RootFilters < in.maxRootFilters /\ In(e[1], e[2])
CallOrderBy(in) ==
    \E o \in in.orders : Len(q.sorts) < in.maxSorts /\ OrderBy(o[1], o[2])
CallLimit(in) == \E l \in in.limits : Limit(l)
CallOffset(in) == \E o \in in.offsets : Offset(o)
CallKeysetPagination(in) == \E k \in in.keysets : KeysetPagination(k)

\* every call, with a few inputs each
GeneralInputs ==
    [schemas |-> {<<SchemaFull>>},
     froms |-> {<<"users", "u">>},
     selects |-> {<<RefId>>},
     maxProjections |-> MaxList,
     joins |-> {<<"inner", "orders", "o", RefUId, RefOId, "=">>},
     maxJoins |-> MaxList,
     wheres |-> {<<GroupFlat>>, <<GroupNested>>},
     eqs |-> {<<RefUId, 3>>},
     ins |-> {<<RefOPrice, 4>>},
     maxRootFilters |-> MaxList,
     orders |-> {<<RefUId, "ASC">>},
     maxSorts |-> MaxList,
     limits |-> {10},
     offsets |-> {5},
     keysets |-> {LastSeenId}]

Init == InitWith(Dialects)

Next ==
    \/ CallWithSchema(GeneralInputs)
    \/ CallFrom(GeneralInputs)
    \/ CallSelect(GeneralInputs)
    \/ Count
    \/ CallJoin(GeneralInputs)
    \/ CallWhere(GeneralInputs)
    \/ CallEq(GeneralInputs)
    \/ CallIn(GeneralInputs)
    \/ CallOrderBy(GeneralInputs)
    \/ CallLimit(GeneralInputs)
    \/ CallOffset(GeneralInputs)
    \/ CallKeysetPagination(GeneralInputs)
    \/ Build

Spec == Init /\ [][Next]_vars

\* the calls that decide the paging clause and the keyset predicate
PagingInputs ==
    [froms |-> {<<"users", "u">>},
     selects |-> {<<RefUId>>},
     maxProjections |-> MaxList,
     wheres |-> {<<GroupFlat>>, <<GroupEmpty>>},
     eqs |-> {<<RefUId, 3>>},
     maxRootFilters |-> MaxList,
     orders |-> {<<RefUId, "ASC">>, <<RefUName, "desc">>},
     maxSorts |-> MaxFocus,
     limits |-> {-1, 10},
     offsets |-> {0, 5},
     keysets |-> {LastSeenId, LastSeenName, LastSeenId @@ LastSeenName}]

NextPaging ==
    \/ CallFrom(PagingInputs)
    \/ CallSelect(PagingInputs)
    \/ Count
    \/ CallWhere(PagingInputs)
    \/ CallEq(PagingInputs)
    \/ CallOrderBy(PagingInputs)
    \/ CallLimit(PagingInputs)
    \/ CallOffset(PagingInputs)
    \/ CallKeysetPagination(PagingInputs)
    \/ Build

SpecPaging == InitWith(Dialects) /\ [][NextPaging]_vars

SchemaNoName ==
    ("users" :> [c \in {"id", "name"} |-> c = "id"])
    @@ ("orders" :> [c \in {"id"} |-> TRUE])

SchemaUsersOnly == ("users" :> [c \in {"id", "name"} |-> TRUE])

GroupOverTables ==
    And(<<FilterItem(F(RefOId, "=", 1)),
          GroupItem(Or(<<FilterItem(F(RefUName, "LIKE", 2))>>))>>)

\* the calls that put table and column references into the Query, with
\* schemas that lack some of them
SchemaInputs ==
    [schemas |-> {<<SchemaFull>>, <<SchemaNoName>>, <<SchemaUsersOnly>>},
     froms |-> {<<"users", "u">>, <<"ghost", "u">>},
     selects |-> {<<RefUName>>},
     maxProjections |-> MaxList,
     joins |-> {<<"INNER", "orders", "o", RefUId, RefOPrice, "=">>},
     maxJoins |-> MaxList,
     wheres |-> {<<GroupOverTables>>},
     eqs |-> {<<RefId, 3>>},
     maxRootFilters |-> MaxList,
     orders |-> {<<RefUName, "ASC">>},
     maxSorts |-> MaxList,
     limits |-> {10},
     keysets |-> {LastSeenName}]

NextSchema ==
    \/ CallWithSchema(SchemaInputs)
    \/ CallFrom(SchemaInputs)
    \/ CallSelect(SchemaInputs)
    \/ Count
    \/ CallJoin(SchemaInputs)
    \/ CallWhere(SchemaInputs)
    \/ CallEq(SchemaInputs)
    \/ CallOrderBy(SchemaInputs)
    \/ CallLimit(SchemaInputs)
    \/ CallKeysetPagination(SchemaInputs)
    \/ Build

SpecSchema == InitWith(Dialects) /\ [][NextSchema]_vars

RefUsersId == <<"users", "id">>

GroupBadOperator ==
    Or(<<FilterItem(F(RefUId, "=", 1)),
         GroupItem(And(<<FilterItem(F(RefUName, "~", 2))>>))>>)

\* joins with good, empty and colliding aliases, operators inside and outside
\* the allow-list, next to a projection the schema rejects, a join type and a
\* sort direction outside their allow-lists
JoinInputs ==
    [schemas |-> {<<SchemaFull>>},
     froms |-> {<<"users", "u">>, <<"users", "">>},
     selects |-> {<<RefId>>},
     maxProjections |-> MaxList,
     joins |-> {<<"inner", "orders", "o", RefUId, RefOId, "=">>,
                <<"OUTER", "orders", "u", RefUId, RefOId, "=">>,
                <<"LEFT", "orders", "", RefUId, RefOId, "=">>,
                <<"LEFT", "users", "users", RefUId, RefUsersId, "<>">>},
     maxJoins |-> MaxFocus,
     wheres |-> {<<GroupFlat>>, <<GroupBadOperator>>},
     orders |-> {<<RefUId, "UP">>},
     maxSorts |-> MaxList]

NextJoin ==
    \/ CallWithSchema(JoinInputs)
    \/ CallFrom(JoinInputs)
    \/ CallSelect(JoinInputs)
    \/ Count
    \/ CallJoin(JoinInputs)
    \/ CallWhere(JoinInputs)
    \/ CallOrderBy(JoinInputs)
    \/ Build

SpecJoin == InitWith(Dialects) /\ [][NextJoin]_vars

RECURSIVE Chain(_)
\* n groups nested in one another, one filter in each
Chain(n) ==
    IF n <= 1 THEN And(<<FilterItem(F(RefUId, "=", 1))>>)
    ELSE Or(<<FilterItem(F(RefUId, "<", n)), GroupItem(Chain(n - 1))>>)

RECURSIVE EmptyChain(_)
\* n groups nested in one another, no filter in any
EmptyChain(n) ==
    IF n <= 1 THEN And(<<>>) ELSE And(<<GroupItem(EmptyChain(n - 1))>>)

\* filter trees of every nesting up to MaxNesting, the deepest chain first or
\* last among the nested groups, after a filter of a bad operator, or empty
DepthInputs ==
    [schemas |-> {<<SchemaFull>>},
     froms |-> {<<"users", "u">>},
     wheres |-> {<<Chain(n)>> : n \in 1..MaxNesting}
                \cup {<<And(<<GroupItem(GroupFlat), GroupItem(Chain(MaxNesting - 1))>>)>>,
                      <<And(<<GroupItem(GroupFlat), GroupItem(Chain(MaxNesting - 2))>>)>>,
                      <<Or(<<FilterItem(F(RefUName, "~", 2)),
                             GroupItem(Chain(MaxNesting))>>)>>,
                      <<EmptyChain(MaxNesting)>>,
                      <<EmptyChain(MaxNesting - 1)>>},
     eqs |-> {<<RefUId, 3>>},
     ins |-> {<<RefUName, 4>>},
     maxRootFilters |-> MaxList,
     orders |-> {<<RefUId, "ASC">>},
     maxSorts |-> MaxList,
     limits |-> {10}]

NextDepth ==
    \/ CallWithSchema(DepthInputs)
    \/ CallFrom(DepthInputs)
    \/ Count
    \/ CallWhere(DepthInputs)
    \/ CallEq(DepthInputs)
    \/ CallIn(DepthInputs)
    \/ CallOrderBy(DepthInputs)
    \/ CallLimit(DepthInputs)
    \/ Build

SpecDepth == InitWith(Dialects) /\ [][NextDepth]_vars

RefOName == <<"o", "name">>

\* a base table that is missing or not in the schema, joins whose alias
\* collides or whose type or column is rejected, a projection, a filter and a
\* sort the schema or the allow-lists reject: several phases can fail in the
\* same Query
PhaseInputs ==
    [schemas |-> {<<SchemaNoName>>},
     froms |-> {<<"users", "u">>, <<"", "u">>, <<"ghost", "u">>},
     selects |-> {<<RefUName>>},
     maxProjections |-> MaxList,
     joins |-> {<<"OUTER", "orders", "o", RefUId, RefOId, "=">>,
                <<"LEFT", "orders", "u", RefUId, RefOId, "=">>,
                <<"LEFT", "orders", "p", RefUId, RefOName, "=">>},
     maxJoins |-> MaxFocus,
     wheres |-> {<<GroupFlat>>, <<GroupBadOperator>>},
     orders |-> {<<RefUId, "UP">>},
     maxSorts |-> MaxList,
     keysets |-> {LastSeenId}]

NextPhases ==
    \/ CallWithSchema(PhaseInputs)
    \/ CallFrom(PhaseInputs)
    \/ CallSelect(PhaseInputs)
    \/ Count
    \/ CallJoin(PhaseInputs)
    \/ CallWhere(PhaseInputs)
    \/ CallOrderBy(PhaseInputs)
    \/ CallKeysetPagination(PhaseInputs)
    \/ Build

SpecPhases == InitWith(Dialects) /\ [][NextPhases]_vars

(***************************************************************************)
(* Properties                                                              *)
(***************************************************************************)

Built == ret.op = "Build"
Succeeded == Built /\ ret.err = Nil

IsPlaceholderIn(sql, piece) ==
    \E d \in Dialects : \E k \in 1..Len(sql) : piece = Placeholder(d, k)

\* the placeholder pieces of sql, left to right
PlaceholdersOf(sql) == SelectSeq(sql, LAMBDA piece : IsPlaceholderIn(sql, piece))

RECURSIVE LeafValues(_)
RECURSIVE LeafValuesOfAll(_)
\* the values of the leaf filters of g: its own filters, then its nested groups
LeafValues(g) ==
    [i \in 1..Len(g.Filters) |-> g.Filters[i].Value] \o LeafValuesOfAll(g.Groups)
LeafValuesOfAll(groups) ==
    IF groups = <<>> THEN <<>>
    ELSE LeafValues(Head(groups)) \o LeafValuesOfAll(Tail(groups))

WhereLeafValues == IF q.where = Nil THEN <<>> ELSE LeafValues(q.where[1])

\* nothing, or one last-seen value
KeysetArgChoices ==
    {<<>>} \cup {<<q.pagination.LastSeen[k]>> : k \in DOMAIN q.pagination.LastSeen}

\* the piece after the keyword piece kw is the n-th placeholder and args[n] = val
KeywordBinds(kw, val) ==
    \A i \in 1..Len(ret.sql) :
        ret.sql[i] = kw =>
            /\ i < Len(ret.sql)
            /\ LET n == Len(PlaceholdersOf(SubSeq(ret.sql, 1, i + 1)))
               IN /\ n \in 1..Len(ret.args)
                  /\ ret.sql[i + 1] = Placeholder(q.dialect, n)
                  /\ ret.args[n] = val

\* C1: after a successful Build the SQL has as many placeholders as there are
\* arguments, the k-th placeholder from the left is Placeholder(k), and the
\* arguments are the leaf filter values in pre-order, then the keyset last-seen
\* value, then the limit, then the offset (each of the last three if present),
\* the limit and the offset being bound by the placeholder after their keyword.
C1_PlaceholdersMatchArgs ==
    Succeeded =>
        LET phs == PlaceholdersOf(ret.sql)
        IN /\ Len(phs) = Len(ret.args)
           /\ \A k \in 1..Len(phs) : phs[k] = Placeholder(q.dialect, k)
           /\ \E K \in KeysetArgChoices :
                \E L \in {<<>>, <<q.limit>>} :
                  \E O \in {<<>>, <<q.offset>>} :
                    ret.args = WhereLeafValues \o K \o L \o O
           /\ KeywordBinds(" LIMIT ", q.limit)
           /\ KeywordBinds(" FETCH NEXT ", q.limit)
           /\ KeywordBinds(" OFFSET ", q.offset)

\* a successful Postgres Build of a nested filter tree with a keyset predicate
\* and a limit: five arguments
C1_Witness ==
    /\ Succeeded
    /\ q.dialect = "Postgres"
    /\ q.where # Nil /\ q.where[1].Groups # <<>>
    /\ q.pagination.Type = "keyset"
    /\ Len(ret.args) = 5
    /\ ret.args[4] = 42 /\ ret.args[5] = q.limit

PagingKeywords == {" ORDER BY ", " LIMIT ", " OFFSET ", " FETCH NEXT ", " ROWS ONLY"}

\* C3: once Count has been called, a successful Build returns SQL that starts
\* with SELECT COUNT(*) FROM and has no ORDER BY, LIMIT, OFFSET or FETCH NEXT
\* piece, its arguments are the filter values and at most the keyset value (no
\* limit, no offset), and the projections play no part: the outcome is that of
\* the same Query without projections.
C3_CountIgnoresOrderAndPaging ==
    (hist.countCalled /\ Succeeded) =>
        /\ Len(ret.sql) >= 2
        /\ ret.sql[1] = "SELECT COUNT(*)" /\ ret.sql[2] = " FROM "
        /\ \A i \in 1..Len(ret.sql) : ret.sql[i] \notin PagingKeywords
        /\ \E K \in KeysetArgChoices : ret.args = WhereLeafValues \o K
        /\ Len(PlaceholdersOf(ret.sql)) = Len(ret.args)
        /\ ret = Returned(BuildOutcome([q EXCEPT !.projections = <<>>]))

\* a successful count Build with a schema, a projection the schema rejects, a
\* sort, a positive limit and a positive offset configured
C3_Witness ==
    /\ hist.countCalled /\ Succeeded
    /\ q.allowedSchema # Nil
    /\ q.projections = <<Col(RefId)>>
    /\ q.sorts # <<>> /\ q.limit > 0 /\ q.offset > 0
    /\ Text(ret.sql) = "SELECT COUNT(*) FROM users u"

PagingPlaceholders(sql) ==
    Cardinality({i \in 1..Len(sql) : sql[i] \in {" LIMIT ", " OFFSET ", " FETCH NEXT "}})

\* the number of keyset predicates in sql: the placeholders that belong neither
\* to a leaf filter nor to the paging clause
KeysetPredicates(sql) ==
    Len(PlaceholdersOf(sql)) - Len(WhereLeafValues) - PagingPlaceholders(sql)

\* C6: the pagination mode is keyset exactly when KeysetPagination was the last
\* of Offset and KeysetPagination to be called and offset exactly when Offset
\* was; a successful Build renders no keyset predicate when Offset ran last,
\* whatever last-seen mapping is stored, and no OFFSET when KeysetPagination ran
\* last, whatever offset is stored.
C6_LastPagingCallWins ==
    /\ q.pagination.Type = "keyset" <=> hist.lastPaging = "KeysetPagination"
    /\ q.pagination.Type = "offset" <=> hist.lastPaging = "Offset"
    /\ q.pagination.Type = "" <=> hist.lastPaging = "none"
    /\ (Succeeded /\ hist.lastPaging = "Offset") =>
           /\ KeysetPredicates(ret.sql) = 0
           /\ ret = Returned(BuildOutcome([q EXCEPT !.pagination.LastSeen = <<>>]))
    /\ (Succeeded /\ hist.lastPaging = "KeysetPagination") =>
           /\ \A i \in 1..Len(ret.sql) : ret.sql[i] # " OFFSET "
           /\ ret = Returned(BuildOutcome([q EXCEPT !.offset = 0]))

\* Offset ran after KeysetPagination: the mapping has the first sort column's
\* key, a limit and an offset are set, Build succeeded without count
C6_Witness ==
    /\ Succeeded /\ ~q.isCount
    /\ hist.lastPaging = "Offset"
    /\ q.sorts # <<>> /\ "u.id" \in DOMAIN q.pagination.LastSeen
    /\ q.sorts[1].Column = Col(RefUId)
    /\ q.limit > 0 /\ q.offset > 0
    /\ q.dialect = "MySQL"
    /\ ret.sql[Len(ret.sql) - 1] = " OFFSET "

\* the paging clause the limit, the offset, the mode and the dialect call for,
\* after n arguments, and the arguments it binds
PagingClause(n) ==
    IF q.limit <= 0 THEN <<>>
    ELSE IF q.pagination.Type = "keyset" \/ q.dialect = "Oracle"
    THEN <<" FETCH NEXT ", Placeholder(q.dialect, n + 1), " ROWS ONLY">>
    ELSE IF q.offset > 0
    THEN <<" LIMIT ", Placeholder(q.dialect, n + 1),
           " OFFSET ", Placeholder(q.dialect, n + 2)>>
    ELSE <<" LIMIT ", Placeholder(q.dialect, n + 1)>>

PagingArgs ==
    IF q.limit <= 0 THEN <<>>
    ELSE IF q.pagination.Type = "keyset" \/ q.dialect = "Oracle" THEN <<q.limit>>
    ELSE IF q.offset > 0 THEN <<q.limit, q.offset>>
    ELSE <<q.limit>>

\* Postgres From(users,u).Select(u.id).Limit(10).Offset(5)
OffsetExample ==
    [New("Postgres") EXCEPT !.baseTable = "users", !.baseAlias = "u",
                            !.projections = <<Col(RefUId)>>,
                            !.limit = 10, !.offset = 5,
                            !.pagination = [Type |-> "offset", LastSeen |-> <<>>]]

\* C7: a successful non-count Build ends with the paging clause and nothing
\* else of the SQL is a paging keyword: nothing when limit <= 0; FETCH NEXT
\* <placeholder> ROWS ONLY binding the limit alone in keyset mode or for Oracle;
\* otherwise LIMIT <placeholder>, then OFFSET <placeholder> exactly when
\* offset > 0.  The Postgres example gives the stated text and arguments.
C7_LimitOffsetClause ==
    /\ (Succeeded /\ ~q.isCount) =>
          LET n == Len(ret.args) - Len(PagingArgs)
              cut == Len(ret.sql) - Len(PagingClause(n))
          IN /\ n >= 0 /\ cut >= 0
             /\ SubSeq(ret.sql, cut + 1, Len(ret.sql)) = PagingClause(n)
             /\ SubSeq(ret.args, n + 1, Len(ret.args)) = PagingArgs
             /\ \A i \in 1..cut :
                   ret.sql[i] \notin {" LIMIT ", " OFFSET ", " FETCH NEXT ", " ROWS ONLY"}
             /\ Len(PlaceholdersOf(SubSeq(ret.sql, 1, cut))) = n
    /\ (Built /\ q = OffsetExample) =>
          /\ ret.err = Nil
          /\ Text(ret.sql) = "SELECT u.id FROM users u LIMIT $1 OFFSET $2"
          /\ ret.args = <<10, 5>>

\* the Postgres example has been built
C7_Witness == Built /\ q = OffsetExample

\* the mode is keyset, there is a sort, the mapping has the first sort's key
KeysetActive ==
    /\ q.pagination.Type = "keyset"
    /\ q.sorts # <<>>
    /\ (q.sorts[1].Column.TableAlias \o "." \o q.sorts[1].Column.ColumnName)
          \in DOMAIN q.pagination.LastSeen

FirstSortKey == q.sorts[1].Column.TableAlias \o "." \o q.sorts[1].Column.ColumnName

\* where the WHERE part of a successful Build ends: before ORDER BY, or, with
\* no ORDER BY, before the paging clause
WhereEnd ==
    IF \E i \in 1..Len(ret.sql) : ret.sql[i] = " ORDER BY "
    THEN (CHOOSE i \in 1..Len(ret.sql) : ret.sql[i] = " ORDER BY ") - 1
    ELSE Len(ret.sql) - (IF q.isCount THEN 0 ELSE Len(PagingClause(0)))

\* C8: in a successful Build, if the mode is keyset, there is a sort and the
\* mapping has the first sort column's key, the WHERE part ends with exactly one
\* keyset predicate alias.column > <placeholder> (ASC) or < (DESC) after
\* " WHERE " (no filter rendered) or " AND " (a WHERE clause exists), bound to
\* that last-seen value; otherwise (other mode, no sort, or no entry for the
\* first sort column, whatever other entries there are) there is no keyset
\* predicate and no extra argument, and the missing entry raises no error.
C8_KeysetFirstSortOnly ==
    /\ Succeeded =>
          LET leaves == Len(WhereLeafValues)
          IN IF KeysetActive
             THEN /\ KeysetPredicates(ret.sql) = 1
                  /\ WhereEnd >= 8
                  /\ SubSeq(ret.sql, WhereEnd - 7, WhereEnd) =
                        <<IF leaves = 0 THEN " WHERE " ELSE " AND ",
                          q.sorts[1].Column.TableAlias, ".", q.sorts[1].Column.ColumnName,
                          " ",
                          IF ToUpper(q.sorts[1].Dir) = "DESC" THEN "<" ELSE ">",
                          " ",
                          Placeholder(q.dialect, leaves + 1)>>
                  /\ ret.args[leaves + 1] = q.pagination.LastSeen[FirstSortKey]
             ELSE /\ KeysetPredicates(ret.sql) = 0
                  /\ Len(ret.args) = leaves + Len(IF q.isCount THEN <<>> ELSE PagingArgs)
    /\ (Built /\ q.baseTable # "" /\ ~KeysetActive) => ret.err = Nil

\* keyset mode, two sorts, the first descending, a mapping with both keys, a
\* rendered filter tree: the predicate follows " AND "
C8_Witness ==
    /\ Succeeded /\ KeysetActive
    /\ Len(q.sorts) = 2 /\ q.sorts[1].Dir = "DESC"
    /\ DOMAIN q.pagination.LastSeen = {"u.id", "u.name"}
    /\ WhereLeafValues # <<>>
    /\ ret.sql[WhereEnd - 7] = " AND " /\ ret.sql[WhereEnd - 2] = "<"

RECURSIVE FilterColumns(_)
RECURSIVE FilterColumnsOfAll(_)
\* the column references of the leaf filters of g
FilterColumns(g) ==
    {g.Filters[i].Column : i \in 1..Len(g.Filters)} \cup FilterColumnsOfAll(g.Groups)
FilterColumnsOfAll(groups) ==
    IF groups = <<>> THEN {}
    ELSE FilterColumns(Head(groups)) \cup FilterColumnsOfAll(Tail(groups))

ProjectionColumns == {q.projections[i] : i \in 1..Len(q.projections)}
JoinColumns ==
    {q.joins[i].Condition.Left : i \in 1..Len(q.joins)}
    \cup {q.joins[i].Condition.Right : i \in 1..Len(q.joins)}
WhereColumns == IF q.where = Nil THEN {} ELSE FilterColumns(q.where[1])
SortColumns == {q.sorts[i].Column : i \in 1..Len(q.sorts)}

\* every column reference the Query holds
ReferencedColumns == ProjectionColumns \cup JoinColumns \cup WhereColumns \cup SortColumns

\* the tables an alias stands for: the base table under the base alias, a
\* joined table under its join alias
TablesOfAlias(a) ==
    (IF a = getBaseAlias(q) THEN {q.baseTable} ELSE {})
    \cup {q.joins[i].Table : i \in {k \in 1..Len(q.joins) : q.joins[k].Alias = a}}

\* ref resolves through a registered alias to a column the schema allows
Resolves(ref) ==
    \E t \in TablesOfAlias(ref.TableAlias) :
        /\ t \in DOMAIN q.allowedSchema[1]
        /\ ref.ColumnName \in DOMAIN q.allowedSchema[1][t]
        /\ q.allowedSchema[1][t][ref.ColumnName]

TablesInSchema ==
    /\ q.baseTable \in DOMAIN q.allowedSchema[1]
    /\ \A i \in 1..Len(q.joins) : q.joins[i].Table \in DOMAIN q.allowedSchema[1]

UnknownColumnErrors(refs) ==
    {<<prefix \o ref.TableAlias \o "." \o ref.ColumnName>> :
        prefix \in {"invalid column: ", "invalid join left column: ",
                    "invalid join right column: ", "invalid sort column: "},
        ref \in refs}

\* C2 (as claimed): with a schema set, in count mode or not, Build succeeds only
\* if the base table and every joined table are in the schema and every column
\* reference of the projections, the join conditions, the filter tree and the
\* sorts resolves; and if the tables are in the schema but a referenced column
\* does not resolve, Build fails with an unknown-column error naming such a
\* column.
C2_EveryReferenceValidated ==
    (Built /\ q.allowedSchema # Nil) =>
        /\ ret.err = Nil =>
              (TablesInSchema /\ \A ref \in ReferencedColumns : Resolves(ref))
        /\ (/\ TablesInSchema
            /\ \E ref \in ReferencedColumns : ~Resolves(ref)
            /\ BuildOutcome([q EXCEPT !.allowedSchema = Nil]).err = Nil) =>
              ret.err \in UnknownColumnErrors({ref \in ReferencedColumns : ~Resolves(ref)})

\* C2, for Builds that are not in count mode
C2_ValidatedOutsideCountMode == ~q.isCount => C2_EveryReferenceValidated

\* C2, count mode: the tables, the join conditions and the filter tree are
\* validated; the projections and the sorts are not, also not the sort column
\* the keyset predicate is rendered from
C2_CountModeValidation ==
    (Built /\ q.allowedSchema # Nil /\ q.isCount /\ ret.err = Nil) =>
        (TablesInSchema /\ \A ref \in JoinColumns \cup WhereColumns : Resolves(ref))

\* a successful count Build whose SQL holds a column the schema does not allow
C2_UnvalidatedColumnRendered ==
    /\ Succeeded /\ q.isCount /\ q.allowedSchema # Nil
    /\ q.sorts # <<>> /\ ~Resolves(q.sorts[1].Column)
    /\ KeysetActive
    /\ \E i \in 1..Len(ret.sql) : ret.sql[i] = q.sorts[1].Column.ColumnName

\* join i has an empty alias, or the alias of the base table or of an earlier join
EmptyAlias(i) == q.joins[i].Alias = ""
CollidingAlias(i) ==
    \/ q.joins[i].Alias = getBaseAlias(q)
    \/ \E k \in 1..(i - 1) : q.joins[k].Alias = q.joins[i].Alias
BadAlias(i) == EmptyAlias(i) \/ CollidingAlias(i)

AliasesDistinct ==
    /\ getBaseAlias(q) # ""
    /\ \A i \in 1..Len(q.joins) : ~BadAlias(i)

DuplicateAliasErrors ==
    {<<"duplicate alias: " \o q.joins[i].Alias>> :
        i \in {k \in 1..Len(q.joins) : CollidingAlias(k)}}

\* C5 (as claimed): Build, the base table having passed validation, fails with
\* the join-alias-required error if any join has an empty alias, and with the
\* duplicate-alias error if any join alias equals the base alias or an earlier
\* join's alias; a successful Build has non-empty, pairwise distinct aliases.
C5_AliasErrorsAsClaimed ==
    (Built /\ validateBase(q, q.allowedSchema) = Nil) =>
        /\ (\E i \in 1..Len(q.joins) : EmptyAlias(i)) =>
              ret.err = <<"join alias required">>
        /\ (\E i \in 1..Len(q.joins) : CollidingAlias(i)) =>
              ret.err \in DuplicateAliasErrors
        /\ ret.err = Nil => AliasesDistinct

\* C5 (amended): Build fails if any join has an empty alias or the alias of the
\* base table or of an earlier join; once the base table has passed validation
\* the error is that of the first such join in configuration order, the
\* join-alias-required error if its alias is empty and the duplicate-alias error
\* otherwise, whatever the projections, joins, filters and sorts are; a
\* successful Build has non-empty, pairwise distinct aliases.
C5_FirstBadAliasDecides ==
    Built =>
        /\ (\E i \in 1..Len(q.joins) : BadAlias(i)) => ret.err # Nil
        /\ \A i \in 1..Len(q.joins) :
              (/\ BadAlias(i)
               /\ \A k \in 1..(i - 1) : ~BadAlias(k)
               /\ validateBase(q, q.allowedSchema) = Nil) =>
                 ret.err = IF EmptyAlias(i) THEN <<"join alias required">>
                           ELSE <<"duplicate alias: " \o q.joins[i].Alias>>
        /\ ret.err = Nil => AliasesDistinct

\* a Build of a Query whose second join repeats the base alias, with a schema
\* that rejects the projection, a first join of a type outside the allow-list
\* and a filter operator outside the allow-list: the duplicate-alias error
C5_Witness ==
    /\ Built /\ ret.err = <<"duplicate alias: users">>
    /\ q.baseAlias = ""
    /\ Len(q.joins) = 2 /\ q.joins[1].Type = "OUTER"
    /\ q.allowedSchema # Nil /\ q.projections # <<>> /\ ~q.isCount
    /\ q.where = <<GroupBadOperator>>

RECURSIVE FilterOperators(_)
RECURSIVE FilterOperatorsOfAll(_)
\* the operators of the leaf filters of g
FilterOperators(g) ==
    {g.Filters[i].Op : i \in 1..Len(g.Filters)} \cup FilterOperatorsOfAll(g.Groups)
FilterOperatorsOfAll(groups) ==
    IF groups = <<>> THEN {}
    ELSE FilterOperators(Head(groups)) \cup FilterOperatorsOfAll(Tail(groups))

WhereOperators == IF q.where = Nil THEN {} ELSE FilterOperators(q.where[1])
JoinOperators == {q.joins[i].Condition.Op : i \in 1..Len(q.joins)}

AllowListed(op) == ToUpper(op) \in allowedOperators

\* C9 (as claimed): after a successful Build the operator of every leaf filter
\* and of every join's ON condition is in the allow-list, compared without
\* regard to case; a leaf filter operator outside it makes Build fail, and an
\* invalid-operator error names such an operator.
C9_OperatorsAllowListed ==
    /\ Succeeded => \A op \in WhereOperators \cup JoinOperators : AllowListed(op)
    /\ (Built /\ \E op \in WhereOperators : ~AllowListed(op)) => ret.err # Nil
    /\ \A op \in WhereOperators \cup JoinOperators \cup {""} :
          (Built /\ ret.err = <<"invalid operator: " \o op>>) =>
              (op \in WhereOperators /\ ~AllowListed(op))

\* C9, for the leaf filters alone
C9_FilterOperatorsAllowListed ==
    /\ Succeeded => \A op \in WhereOperators : AllowListed(op)
    /\ (Built /\ \E op \in WhereOperators : ~AllowListed(op)) => ret.err # Nil

\* a successful Build whose SQL holds a join operator outside the allow-list
C9_UnlistedJoinOperatorRendered ==
    /\ Succeeded
    /\ \E i \in 1..Len(q.joins) :
          /\ ~AllowListed(q.joins[i].Condition.Op)
          /\ \E k \in 1..Len(ret.sql) : ret.sql[k] = q.joins[i].Condition.Op

RECURSIVE Levels(_)
RECURSIVE DeepestOf(_)
\* the longest chain of nested groups in g, g itself being level 1
Levels(g) == 1 + DeepestOf(g.Groups)
DeepestOf(groups) ==
    IF groups = <<>> THEN 0
    ELSE LET h == Levels(Head(groups))
             t == DeepestOf(Tail(groups))
         IN IF h > t THEN h ELSE t

WhereLevels == IF q.where = Nil THEN 0 ELSE Levels(q.where[1])

RECURSIVE GroupOperators(_)
RECURSIVE GroupOperatorsOfAll(_)
\* the logical operators of g and of the groups nested in it
GroupOperators(g) == {g.Operator} \cup GroupOperatorsOfAll(g.Groups)
GroupOperatorsOfAll(groups) ==
    IF groups = <<>> THEN {}
    ELSE GroupOperators(Head(groups)) \cup GroupOperatorsOfAll(Tail(groups))

\* nothing but the depth of the filter tree can make Build fail
OnlyDepthCanFail ==
    /\ BuildOutcome([q EXCEPT !.where = Nil]).err = Nil
    /\ \A op \in WhereOperators : AllowListed(op)
    /\ q.where # Nil => \A op \in GroupOperators(q.where[1]) : ToUpper(op) \in {"AND", "OR"}
    /\ q.allowedSchema # Nil => \A ref \in WhereColumns : Resolves(ref)

DepthError == <<"filter depth exceeded">>

\* C4 (as claimed): with the root group as level 1, Build fails with the
\* filter-depth-exceeded error when the tree has a chain of 11 nested groups
\* (and nothing else is wrong), and not for depth reasons when the longest
\* chain is exactly 10.
C4_DepthBoundaryAsClaimed ==
    Built =>
        /\ (WhereLevels >= 11 /\ OnlyDepthCanFail) => ret.err = DepthError
        /\ WhereLevels = 10 => ret.err # DepthError

\* C4 (amended): with the root group as level 1, Build fails whenever the tree
\* has a chain of 12 nested groups, with the filter-depth-exceeded error when
\* nothing else is wrong, and never with that error when the longest chain is
\* 11 or shorter: 11 levels is the acceptance boundary.
C4_DepthBoundary ==
    Built =>
        /\ WhereLevels >= 12 => ret.err # Nil
        /\ (WhereLevels >= 12 /\ OnlyDepthCanFail) => ret.err = DepthError
        /\ WhereLevels <= 11 => ret.err # DepthError
        /\ (WhereLevels <= 11 /\ OnlyDepthCanFail) => ret.err = Nil

\* Build has failed with the depth error on a chain of exactly 12 groups
C4_Witness ==
    /\ Built /\ ret.err = DepthError
    /\ q.where = <<Chain(12)>>

\* Build has succeeded on a chain of exactly 11 groups
C4_ElevenLevelsBuilt ==
    /\ Succeeded /\ WhereLevels = 11
    /\ Len(ret.args) >= 11

\* the first error of a list of errors (Nil for none), Nil when there is none
FirstFailing(errs) ==
    IF \E i \in 1..Len(errs) : errs[i] # Nil
    THEN errs[CHOOSE i \in 1..Len(errs) :
                 errs[i] # Nil /\ \A k \in 1..(i - 1) : errs[k] = Nil]
    ELSE Nil

\* the aliases of the Query and their tables, as far as registration got
AliasTables == registerAliases(q).aliasMap

\* what each phase of Build answers for the Query on its own, in the order
\* base validation, alias registration, projections, joins, WHERE, ORDER BY;
\* count mode has no projection phase and no ORDER BY phase
PhaseErrors ==
    <<validateBase(q, q.allowedSchema),
      registerAliases(q).err,
      IF q.isCount THEN Nil
      ELSE FirstFailing([i \in 1..Len(q.projections) |->
               IF validateCol(q.projections[i], AliasTables, q.allowedSchema) = Nil
               THEN Nil
               ELSE <<"invalid column: "
                       \o validateCol(q.projections[i], AliasTables, q.allowedSchema)[1]>>]),
      FirstFailing([i \in 1..Len(q.joins) |->
          validateJoin(q.joins[i], AliasTables, q.allowedSchema)]),
      buildFilters(q, <<>>, <<>>, AliasTables, q.allowedSchema).err,
      IF q.isCount THEN Nil
      ELSE buildOrderBy(q, <<>>, AliasTables, q.allowedSchema).err>>

FailingPhases == {i \in 1..Len(PhaseErrors) : PhaseErrors[i] # Nil}

\* C11: a Build returns either SQL text that is not empty and no error, or an
\* error with empty SQL and no arguments, never text with an error; the error
\* is that of the earliest phase that fails for the Query, in the order base
\* validation, alias registration, projections (not in count mode), joins in
\* the order they were configured, WHERE, ORDER BY (not in count mode), and
\* Build succeeds exactly when no phase fails.
C11_FirstFailingPhaseDecides ==
    Built =>
        /\ \/ ret.err = Nil /\ Text(ret.sql) # ""
           \/ ret.err # Nil /\ ret.sql = <<>> /\ Text(ret.sql) = "" /\ ret.args = <<>>
        /\ ret.err = FirstFailing(PhaseErrors)
        /\ ret.err = Nil <=> FailingPhases = {}

\* a Build outside count mode of a Query whose projection, two joins (for
\* different reasons), filter tree and sort all fail: the projection's error
\* is returned
C11_Witness ==
    /\ Built /\ ~q.isCount
    /\ FailingPhases = {3, 4, 5, 6}
    /\ Len(q.joins) = 2
    /\ validateJoin(q.joins[1], AliasTables, q.allowedSchema) # Nil
    /\ validateJoin(q.joins[2], AliasTables, q.allowedSchema) # Nil
    /\ validateJoin(q.joins[1], AliasTables, q.allowedSchema)
          # validateJoin(q.joins[2], AliasTables, q.allowedSchema)
    /\ ret.err = <<"invalid column: u.name">>
    /\ ret.sql = <<>> /\ ret.args = <<>>

\* a Build in count mode of a Query whose projection and sort would fail
\* outside count mode, and whose second join is the first thing to fail
C11_CountSkipsPhases ==
    /\ Built /\ q.isCount
    /\ Len(q.projections) > 0 /\ Len(q.sorts) > 0
    /\ buildOrderBy(q, <<>>, AliasTables, q.allowedSchema).err # Nil
    /\ Len(q.joins) = 2
    /\ validateJoin(q.joins[1], AliasTables, q.allowedSchema) = Nil
    /\ ret.err = validateJoin(q.joins[2], AliasTables, q.allowedSchema)
    /\ ret.err # Nil

\* the pieces of the WHERE condition of a successful Build that decide how it
\* is read: parentheses, AND, OR, and one placeholder for each comparison
WhereTokens ==
    IF \E i \in 1..Len(ret.sql) : ret.sql[i] = " WHERE "
    THEN LET start == CHOOSE i \in 1..Len(ret.sql) : ret.sql[i] = " WHERE "
         IN SelectSeq(SubSeq(ret.sql, start + 1, WhereEnd),
                      LAMBDA piece : \/ piece \in {"(", ")", " AND ", " OR "}
                                     \/ IsPlaceholderIn(ret.sql, piece))
    ELSE <<>>

IsConnective(tok) == tok \in {"(", ")", " AND ", " OR "}

\* which comparison, counted from the left, the token at place i is
ComparisonAt(toks, i) == Cardinality({k \in 1..i : ~IsConnective(toks[k])})

RECURSIVE ReadOr(_, _, _)
RECURSIVE ReadOrRest(_, _, _, _)
RECURSIVE ReadAnd(_, _, _)
RECURSIVE ReadAndRest(_, _, _, _)
RECURSIVE ReadPrimary(_, _, _)

\* SQL reading of a condition from token i on, v giving each comparison's
\* truth value: a parenthesised condition or one comparison
ReadPrimary(toks, i, v) ==
    IF toks[i] = "("
    THEN LET inner == ReadOr(toks, i + 1, v)
         IN [val |-> inner.val, next |-> inner.next + 1]
    ELSE [val |-> v[ComparisonAt(toks, i)], next |-> i + 1]

ReadAndRest(toks, i, v, acc) ==
    IF i <= Len(toks) /\ toks[i] = " AND "
    THEN LET right == ReadPrimary(toks, i + 1, v)
         IN ReadAndRest(toks, right.next, v, acc /\ right.val)
    ELSE [val |-> acc, next |-> i]

\* AND binds tighter than OR
ReadAnd(toks, i, v) ==
    LET left == ReadPrimary(toks, i, v)
    IN ReadAndRest(toks, left.next, v, left.val)

ReadOrRest(toks, i, v, acc) ==
    IF i <= Len(toks) /\ toks[i] = " OR "
    THEN LET right == ReadAnd(toks, i + 1, v)
         IN ReadOrRest(toks, right.next, v, acc \/ right.val)
    ELSE [val |-> acc, next |-> i]

ReadOr(toks, i, v) ==
    LET left == ReadAnd(toks, i, v)
    IN ReadOrRest(toks, left.next, v, left.val)

\* the truth value of the emitted WHERE condition under v
WhereHolds(v) == ReadOr(WhereTokens, 1, v).val

\* a successful Build appended the keyset predicate to a WHERE clause the
\* filter tree had rendered
KeysetAfterFilters == Succeeded /\ KeysetActive /\ Len(WhereLeafValues) > 0

\* the keyset comparison is the last one of the WHERE condition
KeysetComparison == Len(WhereLeafValues) + 1

TruthAssignments == [1..KeysetComparison -> BOOLEAN]

\* C12: when the keyset predicate is appended to a WHERE clause that the
\* filter tree rendered, the emitted condition, read with AND binding tighter
\* than OR, is true only if the keyset comparison is true, for every truth
\* assignment to the comparisons and every filter tree.
C12_KeysetConjoined ==
    KeysetAfterFilters =>
        \A v \in TruthAssignments : WhereHolds(v) => v[KeysetComparison]

\* C12 for a root group of operator AND: the keyset comparison is a conjunct
\* of the emitted condition
C12_ConjoinedUnderAndRoot ==
    (KeysetAfterFilters /\ ToUpper(q.where[1].Operator) = "AND") =>
        \A v \in TruthAssignments : WhereHolds(v) => v[KeysetComparison]

\* a root group of operator OR with several rendered parts: the emitted
\* condition is true through its first part although the keyset comparison is
\* false
C12_OrRootEscapesKeyset ==
    /\ KeysetAfterFilters
    /\ ToUpper(q.where[1].Operator) = "OR"
    /\ \E v \in TruthAssignments :
          /\ v[1] /\ \A k \in 2..KeysetComparison : ~v[k]
          /\ WhereHolds(v)

====
